---- MODULE Spec2Model ----
(***************************************************************************)
(* Deep4Cast: the temporal cross-validator (deep4cast/validators.py) and   *)
(* the two topology compilers (deep4cast/models.py) as state machines.     *)
(*                                                                         *)
(* Data is represented by the positions of its observations: the series    *)
(* of length L is <<0, 1, ..., L-1>>, and a slice of it is the sequence of *)
(* the positions it holds, so two segments are equal exactly when they are *)
(* the same view of the series.                                            *)
(***************************************************************************)
EXTENDS Integers, Sequences, FiniteSets, TLC

(***************************************************************************)
(* Bounds of the model.                                                    *)
(***************************************************************************)
MaxLen == 8
MaxFolds == 5
MaxLookback == 5
FracDen == 4
MaxLayers == 3
MaxNodes == 3

None == "None"

VARIABLES
    form,          \* which object this behaviour is about: "cv", "chain", "graph"
    \* ---- TemporalCrossValidator: fields and the position inside evaluate
    dataLen,       \* len(self.data)
    fracNum,       \* self.train_frac = fracNum / FracDen
    n_folds,       \* self.n_folds
    lossKnown,     \* whether metrics has an attribute named self.loss
    lookback,      \* params['lookback']
    cvpc,          \* position inside evaluate
    foldIdx,       \* the generator's loop variable i (number of folds yielded)
    fold,          \* the (data_train, data_test) pair last yielded
    folds,         \* every pair yielded so far, in order
    fits,          \* per scored fold: what the forecaster was fitted and scored on
    cvResult,      \* what evaluate ended with
    \* ---- LayeredTimeSeriesModel / SharedLayerModel: compilation
    heap,          \* the caller's parameter mappings (dict objects), by identity
    heap0,         \* their content when compilation started
    topology,      \* self._topology: a sequence of entries referring to heap objects
    topoNone,      \* self._topology is None
    uncertainty,   \* self._uncertainty
    strInterned,   \* whether the id string 'output' is the interned literal
    input_shape,   \* self._input_shape = (length, dimensionality)
    dropout_rate,  \* self._dropout_rate, in tenths
    cpc,           \* position inside _build_layers
    pos,           \* loop variable i
    layers,        \* chain form: the list; graph form: the id -> handle dict
    built,         \* every topology layer object constructed so far, in order
    nDropout,      \* graph form: dropout transformations inserted so far
    cResult        \* what compilation ended with

cvVars == <<dataLen, fracNum, n_folds, lossKnown, lookback, cvpc, foldIdx, fold,
            folds, fits, cvResult>>
cVars == <<heap, heap0, topology, topoNone, uncertainty, strInterned, input_shape,
           dropout_rate, cpc, pos, layers, built, nDropout, cResult>>
vars == <<form, cvVars, cVars>>

Max(a, b) == IF a >= b THEN a ELSE b
Min(a, b) == IF a <= b THEN a ELSE b

(***************************************************************************)
(* Python's arithmetic and slicing.                                        *)
(***************************************************************************)
\* int(x / d) for d > 0: truncation toward zero.
TruncDiv(x, d) == IF x >= 0 THEN x \div d ELSE -((-x) \div d)

\* x // d for d # 0: floor division.
FloorDiv(x, d) == IF d > 0 THEN x \div d ELSE (-x) \div (-d)

\* One bound of a slice over a sequence of length n: a negative bound counts
\* from the end, and the result is clipped to 0..n.
SliceBound(n, k) == IF k < 0 THEN Max(k + n, 0) ELSE Min(k, n)

\* data[start:stop] for the series of length n, as positions.
PySlice(n, start, stop) ==
    LET lo == SliceBound(n, start)
        hi == SliceBound(n, stop)
    IN  [k \in 1..Max(hi - lo, 0) |-> lo + k - 1]

\* seg[start:] for a sequence seg.
SliceFrom(seg, start) ==
    LET lo == SliceBound(Len(seg), start)
    IN  [k \in 1..(Len(seg) - lo) |-> seg[lo + k]]

(***************************************************************************)
(* TemporalCrossValidator._generate_folds                                  *)
(***************************************************************************)
\* train_length = int(len(self.data) * self.train_frac)
TrainLength(L, num) == TruncDiv(L * num, FracDen)

\* fold_length = (len(self.data) - train_length) // self.n_folds
FoldLength(L, num, nf) == FloorDiv(L - TrainLength(L, num), nf)

\* Variant of FoldStart: an expanding window, every fold starting at offset 0.
FoldStartFixed(i, fl) == 0

\* a = i * fold_length
FoldStart(i, fl) == i * fl

\* b = (i + 1) * fold_length
FoldStop(i, fl) == (i + 1) * fl

\* data_train = self.data[a:train_length + a]
TrainSegment(L, num, nf, i) ==
    LET tl == TrainLength(L, num)
        a  == FoldStart(i, FoldLength(L, num, nf))
    IN  PySlice(L, a, tl + a)

\* data_test = self.data[train_length + a - lb:train_length + b]
TestSegment(L, num, nf, lb, i) ==
    LET tl == TrainLength(L, num)
        fl == FoldLength(L, num, nf)
    IN  PySlice(L, tl + FoldStart(i, fl) - lb, tl + FoldStop(i, fl))

NoFold == [train |-> <<>>, test |-> <<>>]

DataLens == (0..MaxLen) \cup {100}
Fracs == (-1)..(FracDen + 1)
FoldCounts == (-1)..MaxFolds
Lookbacks == 0..MaxLookback

InitCV ==
    /\ form = "cv"
    /\ dataLen \in DataLens
    /\ fracNum \in Fracs
    /\ n_folds \in FoldCounts
    /\ lossKnown \in BOOLEAN
    /\ lookback \in Lookbacks
    /\ cvpc = "start"
    /\ foldIdx = 0
    /\ fold = NoFold
    /\ folds = <<>>
    /\ fits = <<>>
    /\ cvResult = None
    /\ heap = <<>> /\ heap0 = <<>> /\ topology = <<>> /\ topoNone = FALSE
    /\ uncertainty = None /\ strInterned = TRUE /\ input_shape = <<0, 0>>
    /\ dropout_rate = 0 /\ cpc = "off" /\ pos = 0
    /\ layers = <<>> /\ built = <<>> /\ nDropout = 0 /\ cResult = None

\* evaluate, up to the loop: the metric lookup and the creation of the
\* generator (whose body does not run before the first fold is asked for).
EvaluateStart ==
    /\ form = "cv" /\ cvpc = "start"
    /\ IF lossKnown
       THEN cvpc' = "gen" /\ cvResult' = cvResult
       ELSE cvpc' = "raised" /\ cvResult' = "AttributeError"
    /\ UNCHANGED <<form, dataLen, fracNum, n_folds, lossKnown, lookback, foldIdx,
                   fold, folds, fits, cVars>>

\* The generator's prologue, run when the loop asks for the first fold.
GeneratorStart ==
    /\ form = "cv" /\ cvpc = "gen"
    /\ IF n_folds = 0
       THEN cvpc' = "raised" /\ cvResult' = "ZeroDivisionError"
       ELSE cvpc' = "next" /\ cvResult' = cvResult
    /\ UNCHANGED <<form, dataLen, fracNum, n_folds, lossKnown, lookback, foldIdx,
                   fold, folds, fits, cVars>>

\* One pass of `for i in range(self.n_folds)` up to the yield, or its end.
YieldFold ==
    /\ form = "cv" /\ cvpc = "next"
    /\ IF foldIdx < n_folds
       THEN LET f == [train |-> TrainSegment(dataLen, fracNum, n_folds, foldIdx),
                      test  |-> TestSegment(dataLen, fracNum, n_folds, lookback, foldIdx)]
            IN  /\ fold' = f
                /\ folds' = Append(folds, f)
                /\ foldIdx' = foldIdx + 1
                /\ cvpc' = "body"
       ELSE /\ cvpc' = "stats"
            /\ UNCHANGED <<fold, folds, foldIdx>>
    /\ UNCHANGED <<form, dataLen, fracNum, n_folds, lossKnown, lookback, fits,
                   cvResult, cVars>>

\* The loop body: a fresh forecaster is fitted on data_train, predicts on both
\* segments, and is scored on each segment from index lookback onward.
FitAndScore ==
    /\ form = "cv" /\ cvpc = "body"
    /\ fits' = Append(fits, [i |-> foldIdx - 1,
                             fit_on |-> fold.train,
                             train_actuals |-> SliceFrom(fold.train, lookback),
                             test_actuals  |-> SliceFrom(fold.test, lookback)])
    /\ cvpc' = "next"
    /\ UNCHANGED <<form, dataLen, fracNum, n_folds, lossKnown, lookback, foldIdx,
                   fold, folds, cvResult, cVars>>

\* The statistics: np.mean and np.std of an empty list are nan, np.min of an
\* empty list raises ValueError.
Statistics ==
    /\ form = "cv" /\ cvpc = "stats"
    /\ IF fits = <<>>
       THEN cvpc' = "raised" /\ cvResult' = "ValueError"
       ELSE cvpc' = "returned" /\ cvResult' = "scores"
    /\ UNCHANGED <<form, dataLen, fracNum, n_folds, lossKnown, lookback, foldIdx,
                   fold, folds, fits, cVars>>

\* The cross-validator's variables in a behaviour that is about a compiler.
CVIdle ==
    /\ cvpc = "off" /\ foldIdx = 0 /\ fold = NoFold
    /\ folds = <<>> /\ fits = <<>> /\ cvResult = None
    /\ dataLen = 0 /\ fracNum = 0 /\ n_folds = 0 /\ lossKnown = FALSE /\ lookback = 0

NextCV == EvaluateStart \/ GeneratorStart \/ YieldFold \/ FitAndScore \/ Statistics

SpecCV == InitCV /\ [][NextCV]_vars

(***************************************************************************)
(* The layer catalog as the compilers see it: getattr(keras.layers, name)  *)
(* and the constructor's argument names.                                   *)
(***************************************************************************)
LayerNames == {"LSTM", "Dense", "MaxPooling1D"}

\* getargspec(layer_cls...)[0], restricted to the names the compilers touch.
ArgsOf(name) ==
    CASE name = "LSTM"         -> {"units", "kernel_initializer", "return_sequences"}
      [] name = "Dense"        -> {"units", "kernel_initializer"}
      [] name = "MaxPooling1D" -> {}

\* Arguments a constructor cannot do without.
RequiredOf(name) == IF name \in {"LSTM", "Dense"} THEN {"units"} ELSE {}

\* layer_cls(**kwargs) returns a layer (rather than raising TypeError).
Constructible(name, kwargs) ==
    /\ DOMAIN kwargs \subseteq (ArgsOf(name) \cup {"input_shape"})
    /\ RequiredOf(name) \subseteq DOMAIN kwargs

\* self._rnd_init
RndInit == "glorot_normal"

\* params[key] = value on a dict
SetItem(d, key, value) == (key :> value) @@ d

(***************************************************************************)
(* LayeredTimeSeriesModel._build_layers (chain form)                       *)
(***************************************************************************)
\* The in-place updates of one entry's params dict at position i of n.
ChainParams(d, name, i, n) ==
    LET d1 == IF "kernel_initializer" \in ArgsOf(name)
              THEN SetItem(d, "kernel_initializer", RndInit) ELSE d
    IN  IF "return_sequences" \in ArgsOf(name) /\ i < n - 1
        THEN SetItem(d1, "return_sequences", TRUE) ELSE d1

\* The keyword arguments of the constructor call at position i.
ChainKwargs(d, i, shape) ==
    IF i = 0 THEN SetItem(d, "input_shape", shape) ELSE d

\* Variant of Dimensionality: the series' length taken for its dimensionality.
DimensionalityFirst(shape) == shape[1]

\* self._input_shape[1]
Dimensionality(shape) == shape[2]

\* The params of the closing Dense layer.
ProjectionParams(shape, hasTopology) ==
    LET p == [units |-> Dimensionality(shape)]
    IN  IF hasTopology THEN p ELSE SetItem(p, "input_shape", shape)

\* What is appended after the loop.
ChainTail(shape, rate, hasTopology) ==
    LET dense == [cls |-> "Dense", kwargs |-> ProjectionParams(shape, hasTopology)]
    IN  IF hasTopology
        THEN << [cls |-> "Lambda", kwargs |-> [level |-> rate]], dense >>
        ELSE << dense >>

\* `if self._topology`: neither None nor empty.
Truthy == ~topoNone /\ topology # <<>>

ParamChoices ==
    { u @@ r : u \in {<<>>, [units |-> 4]},
               r \in {<<>>, [return_sequences |-> FALSE]} }

TypeNames == LayerNames \cup {"NoSuchLayer"}

ChainEntries == [layer : TypeNames, params : 1..2]

InputShapes == {<<3, 1>>, <<3, 2>>}

InitChain ==
    /\ form = "chain"
    /\ heap \in [1..2 -> ParamChoices]
    /\ heap0 = heap
    /\ topoNone \in BOOLEAN
    /\ topology \in UNION {[1..n -> ChainEntries] : n \in 0..MaxLayers}
    /\ topoNone => topology = <<>>
    /\ uncertainty = None /\ strInterned = TRUE
    /\ input_shape \in InputShapes
    /\ dropout_rate \in {1, 5}
    /\ cpc = "loop" /\ pos = 0
    /\ layers = <<>> /\ built = <<>> /\ nDropout = 0 /\ cResult = None
    /\ CVIdle

\* One pass of the loop over the topology.
ChainLayer ==
    /\ form = "chain" /\ cpc = "loop" /\ Truthy /\ pos < Len(topology)
    /\ LET e == topology[pos + 1]
           n == Len(topology)
       IN  IF e.layer \notin LayerNames
           THEN /\ cpc' = "raised" /\ cResult' = "AttributeError"
                /\ UNCHANGED <<heap, layers, built, pos>>
           ELSE LET d  == ChainParams(heap[e.params], e.layer, pos, n)
                    kw == ChainKwargs(d, pos, input_shape)
                IN  /\ heap' = [heap EXCEPT ![e.params] = d]
                    /\ IF Constructible(e.layer, kw)
                       THEN /\ layers' = Append(layers, [cls |-> e.layer, kwargs |-> kw])
                            /\ built' = Append(built, [cls |-> e.layer, kwargs |-> kw])
                            /\ pos' = pos + 1
                            /\ UNCHANGED <<cpc, cResult>>
                       ELSE /\ cpc' = "raised" /\ cResult' = "TypeError"
                            /\ UNCHANGED <<layers, built, pos>>
    /\ UNCHANGED <<form, cvVars, heap0, topology, topoNone, uncertainty, strInterned,
                   input_shape, dropout_rate, nDropout>>

\* After the loop: the dropout Lambda (when there is a topology) and the
\* closing Dense layer.
ChainFinish ==
    /\ form = "chain" /\ cpc = "loop" /\ (Truthy => pos = Len(topology))
    /\ layers' = layers \o ChainTail(input_shape, dropout_rate, Truthy)
    /\ cpc' = "done" /\ cResult' = "layers"
    /\ UNCHANGED <<form, cvVars, heap, heap0, topology, topoNone, uncertainty,
                   strInterned, input_shape, dropout_rate, pos, built, nDropout>>

NextChain == ChainLayer \/ ChainFinish

SpecChain == InitChain /\ [][NextChain]_vars

(***************************************************************************)
(* SharedLayerModel._build_layers (graph form)                             *)
(***************************************************************************)
\* keras.layers.Input(shape=self._input_shape)
InputHandle(shape) == [op |-> "Input", shape |-> shape]

\* layer_cls(**kwargs)(x) for the topology entry at position k (1-based).
Apply(k, name, kwargs, x) ==
    [op |-> "Layer", entry |-> k, cls |-> name, kwargs |-> kwargs, in |-> x]

\* keras.layers.Dropout(rate)(x)
Dropout(rate, x) == [op |-> "Dropout", rate |-> rate, in |-> x]

\* keras.layers.core.Lambda(lambda x: K.dropout(x, level=rate))(x)
LambdaDropout(rate, x) == [op |-> "Lambda", level |-> rate, in |-> x]

\* meta['id'] is 'output': identity of string objects, which holds for the
\* interned literal and fails for an equal string built at run time.
IsOutput(id, interned) == id = "output" /\ interned

\* The in-place updates of one entry's params dict.
GraphParams(d, name, id, interned, shape) ==
    LET d1 == IF "kernel_initializer" \in ArgsOf(name)
              THEN SetItem(d, "kernel_initializer", RndInit) ELSE d
    IN  IF IsOutput(id, interned)
        THEN SetItem(d1, "units", Dimensionality(shape)) ELSE d1

\* Which of the four branches of the if/elif chain is taken.
Branch(unc, id) ==
    CASE unc = None -> "plain"
      [] unc = "all" -> "all"
      [] unc = "last" /\ id # "output" -> "plain"
      [] unc = "last" /\ id = "output" -> "before_output"
      [] OTHER -> "skip"

\* The effect of one entry e at position k (1-based) with its updated params
\* d on the id -> handle dict: the dict, the topology layers constructed, the
\* dropout transformations inserted, and the exception raised (or None).
GraphStep(e, k, d, lyrs, unc, rate) ==
    LET br    == Branch(unc, e.id)
        ok    == Constructible(e.layer, d)
        known == e.parent \in DOMAIN lyrs
        obj   == [cls |-> e.layer, kwargs |-> d, entry |-> k]
    IN  CASE br = "skip" ->
               [layers |-> lyrs, built |-> <<>>, drops |-> 0, err |-> None]
          [] br = "plain" /\ ~ok ->
               [layers |-> lyrs, built |-> <<>>, drops |-> 0, err |-> "TypeError"]
          [] br = "plain" /\ ok /\ ~known ->
               [layers |-> lyrs, built |-> <<obj>>, drops |-> 0, err |-> "KeyError"]
          [] br = "plain" /\ ok /\ known ->
               [layers |-> SetItem(lyrs, e.id, Apply(k, e.layer, d, lyrs[e.parent])),
                built |-> <<obj>>, drops |-> 0, err |-> None]
          [] br = "all" /\ ~ok ->
               [layers |-> lyrs, built |-> <<>>, drops |-> 0, err |-> "TypeError"]
          [] br = "all" /\ ok /\ ~known ->
               [layers |-> lyrs, built |-> <<obj>>, drops |-> 0, err |-> "KeyError"]
          [] br = "all" /\ ok /\ known ->
               [layers |-> SetItem(lyrs, e.id,
                              Dropout(rate, Apply(k, e.layer, d, lyrs[e.parent]))),
                built |-> <<obj>>, drops |-> 1, err |-> None]
          [] br = "before_output" /\ ~known ->
               [layers |-> lyrs, built |-> <<>>, drops |-> 0, err |-> "KeyError"]
          [] br = "before_output" /\ known /\ ~ok ->
               [layers |-> SetItem(lyrs, "lambda", LambdaDropout(rate, lyrs[e.parent])),
                built |-> <<>>, drops |-> 1, err |-> "TypeError"]
          [] br = "before_output" /\ known /\ ok ->
               LET withLambda ==
                     SetItem(lyrs, "lambda", LambdaDropout(rate, lyrs[e.parent]))
               IN  [layers |-> SetItem(withLambda, e.id,
                                  Apply(k, e.layer, d, withLambda["lambda"])),
                    built |-> <<obj>>, drops |-> 1, err |-> None]

NodeIds == {"h", "lambda", "output"}
ParentIds == {"input", "h", "lambda"}
GraphTypes == {"Dense", "MaxPooling1D", "NoSuchLayer"}
GraphEntries == [id : NodeIds, layer : GraphTypes, parent : ParentIds]
Uncertainties == {None, "all", "last"}

\* The params a caller declares for a node of the given type.
DeclaredParams(name) == IF name = "MaxPooling1D" THEN <<>> ELSE [units |-> 4]

InitGraph ==
    /\ form = "graph"
    /\ topoNone \in BOOLEAN
    /\ \E n \in 0..MaxNodes :
         \E t \in [1..n -> GraphEntries] :
            /\ topology = [k \in 1..n |-> [id |-> t[k].id, layer |-> t[k].layer,
                                           parent |-> t[k].parent, params |-> k]]
            /\ heap = [k \in 1..n |-> DeclaredParams(t[k].layer)]
    /\ topoNone => topology = <<>>
    /\ heap0 = heap
    /\ uncertainty \in Uncertainties
    /\ strInterned \in BOOLEAN
    /\ input_shape = <<3, 2>>
    /\ dropout_rate = 1
    /\ cpc = "start" /\ pos = 0
    /\ layers = <<>> /\ built = <<>> /\ nDropout = 0 /\ cResult = None
    /\ CVIdle

\* The input layer, and entering the loop (iterating over None raises).
GraphStart ==
    /\ form = "graph" /\ cpc = "start"
    /\ layers' = [input |-> InputHandle(input_shape)]
    /\ IF topoNone
       THEN cpc' = "raised" /\ cResult' = "TypeError"
       ELSE cpc' = "loop" /\ cResult' = cResult
    /\ UNCHANGED <<form, cvVars, heap, heap0, topology, topoNone, uncertainty,
                   strInterned, input_shape, dropout_rate, pos, built, nDropout>>

\* One pass of the loop over the topology.
GraphNode ==
    /\ form = "graph" /\ cpc = "loop" /\ pos < Len(topology)
    /\ LET e == topology[pos + 1]
       IN  IF e.layer \notin LayerNames
           THEN /\ cpc' = "raised" /\ cResult' = "AttributeError"
                /\ UNCHANGED <<heap, layers, built, nDropout, pos>>
           ELSE LET d == GraphParams(heap[e.params], e.layer, e.id, strInterned,
                                     input_shape)
                    r == GraphStep(e, pos + 1, d, layers, uncertainty, dropout_rate)
                IN  /\ heap' = [heap EXCEPT ![e.params] = d]
                    /\ layers' = r.layers
                    /\ built' = built \o r.built
                    /\ nDropout' = nDropout + r.drops
                    /\ IF r.err = None
                       THEN pos' = pos + 1 /\ UNCHANGED <<cpc, cResult>>
                       ELSE cpc' = "raised" /\ cResult' = r.err /\ pos' = pos
    /\ UNCHANGED <<form, cvVars, heap0, topology, topoNone, uncertainty, strInterned,
                   input_shape, dropout_rate>>

\* Model(layers['input'], layers['output'])
GraphFinish ==
    /\ form = "graph" /\ cpc = "loop" /\ pos = Len(topology)
    /\ IF "output" \in DOMAIN layers
       THEN cpc' = "done" /\ cResult' = "model"
       ELSE cpc' = "raised" /\ cResult' = "KeyError"
    /\ UNCHANGED <<form, cvVars, heap, heap0, topology, topoNone, uncertainty,
                   strInterned, input_shape, dropout_rate, pos, layers, built, nDropout>>

NextGraph == GraphStart \/ GraphNode \/ GraphFinish

SpecGraph == InitGraph /\ [][NextGraph]_vars

\* Either compiler.
SpecCompile == (InitChain \/ InitGraph) /\ [][NextChain \/ NextGraph]_vars

Init == InitCV \/ InitChain \/ InitGraph

Next == NextCV \/ NextChain \/ NextGraph

Spec == Init /\ [][Next]_vars

(***************************************************************************)
(* Properties of the cross-validator.                                      *)
(***************************************************************************)
\* Positions lo, lo+1, ..., hi-1.
Range(lo, hi) == [k \in 1..(hi - lo) |-> lo + k - 1]

\* The slice notation data[start:stop] read on its own terms: the positions
\* of the series from start up to stop, a negative bound counting from the
\* end of the series.
Wrap(L, k) == IF k < 0 THEN k + L ELSE k
SliceAsStated(L, start, stop) ==
    LET S == {p \in 0..(L - 1) : Wrap(L, start) <= p /\ p < Wrap(L, stop)}
    IN  [k \in 1..Cardinality(S) |-> (CHOOSE m \in S : \A q \in S : m <= q) + k - 1]

\* floor(L * train_frac) and floor((L - train_length) / n_folds), n_folds >= 1.
StatedTrainLength == (dataLen * fracNum) \div FracDen
StatedFoldLength == (dataLen - StatedTrainLength) \div n_folds

\* Fold i as the claim states it.
StatedFold(i) ==
    LET tl == StatedTrainLength
        fl == StatedFoldLength
    IN  [train |-> SliceAsStated(dataLen, i * fl, tl + i * fl),
         test  |-> SliceAsStated(dataLen, tl + i * fl - lookback, tl + (i + 1) * fl)]

GeneratorEnded == cvpc \in {"stats", "returned", "raised"} /\ lossKnown

\* n_folds >= 1 and 0 < train_frac < 1.
ValidConfig == n_folds >= 1 /\ 0 < fracNum /\ fracNum < FracDen

\* A valid configuration whose train window and folds are not empty.
NonEmptyFolds ==
    /\ ValidConfig
    /\ TrainLength(dataLen, fracNum) >= 1
    /\ FoldLength(dataLen, fracNum, n_folds) >= 1

\* C1 as stated: for any data length, train_frac and n_folds the generator
\* yields exactly n_folds folds, fold i being data[i*fl : tl + i*fl] and
\* data[tl + i*fl - lookback : tl + (i+1)*fl] with tl = floor(L*train_frac)
\* and fl = floor((L - tl) / n_folds).
C1_AsStated ==
    (form = "cv" /\ GeneratorEnded) =>
        /\ cvResult # "ZeroDivisionError"
        /\ Len(folds) = n_folds
        /\ \A k \in 1..Len(folds) : folds[k] = StatedFold(k - 1)

\* C1 (amended): for n_folds >= 1 and train_frac >= 0 the generator yields
\* exactly n_folds folds, in order, fold i being data[i*fl : tl + i*fl] and
\* data[tl + i*fl - lookback : tl + (i+1)*fl]; with 100 observations,
\* train_frac 0.5, 5 folds and lookback 3, fold 0 is data[0:50], data[47:60]
\* and fold 4 is data[40:90], data[87:100].
C1_Folds ==
    (form = "cv" /\ n_folds >= 1 /\ fracNum >= 0) =>
        /\ Len(folds) <= n_folds
        /\ \A k \in 1..Len(folds) : folds[k] = StatedFold(k - 1)
        /\ cvpc \in {"stats", "returned"} => Len(folds) = n_folds
        /\ (dataLen = 100 /\ 2 * fracNum = FracDen /\ n_folds = 5 /\ lookback = 3) =>
              /\ Len(folds) >= 1 =>
                    folds[1] = [train |-> Range(0, 50), test |-> Range(47, 60)]
              /\ Len(folds) >= 5 =>
                    folds[5] = [train |-> Range(40, 90), test |-> Range(87, 100)]

\* The scenario of C1 with all of its folds yielded.
C1_Witness ==
    /\ form = "cv" /\ cvpc = "stats"
    /\ dataLen = 100 /\ 2 * fracNum = FracDen /\ n_folds = 5 /\ lookback = 3
    /\ Len(folds) = 5

\* C5 as stated, for valid configurations whose windows are not empty: every
\* fold that is fitted and scored has a test segment of at least lookback
\* observations and a scored part that is not empty (otherwise
\* InsufficientDataError is signalled before the fit).
C5_AsStated ==
    (form = "cv" /\ NonEmptyFolds) =>
        \A k \in 1..Len(fits) :
            /\ Len(folds[k].test) >= lookback
            /\ fits[k].test_actuals # <<>>

\* C6 as stated, the class of the error left open, for data that is not
\* empty: with n_folds <= 0 or train_frac outside (0,1), evaluate fits no
\* forecaster and returns no scores.
C6_AsStated ==
    (form = "cv" /\ lossKnown /\ dataLen >= 1 /\ ~ValidConfig) =>
        /\ fits = <<>>
        /\ cvpc # "returned"

\* C10 as stated, for valid configurations whose windows are not empty: in
\* every scored fold i the scored
\* part of the test segment is exactly data[tl + i*fl : tl + (i+1)*fl], all of
\* it at or after the end of the fold's train segment, and the first lookback
\* observations of the test segment are the last lookback observations of the
\* train segment.
C10_AsStated ==
    (form = "cv" /\ NonEmptyFolds) =>
        \A k \in 1..Len(fits) :
            LET tl == TrainLength(dataLen, fracNum)
                fl == FoldLength(dataLen, fracNum, n_folds)
                a  == (k - 1) * fl
                tr == folds[k].train
                te == folds[k].test
                sc == fits[k].test_actuals
            IN  /\ sc = Range(tl + a, tl + a + fl)
                /\ \A j \in 1..Len(sc) : sc[j] >= tl + a
                /\ Len(te) >= lookback
                /\ Len(tr) >= lookback
                /\ SubSeq(te, 1, lookback) = SubSeq(tr, Len(tr) - lookback + 1, Len(tr))

(***************************************************************************)
(* Properties of the chain-form compiler.                                  *)
(***************************************************************************)
Ended == cpc \in {"done", "raised"}

\* Whether mappings p and q agree on key: both lack it or both hold the same value.
SameAt(p, q, key) ==
    /\ (key \in DOMAIN p) = (key \in DOMAIN q)
    /\ key \in DOMAIN p => p[key] = q[key]

\* C3 as stated: every layer constructed at a position before the last whose
\* type accepts return_sequences is constructed with it set true, and the
\* layer at the last position is constructed with exactly the value, or the
\* absence, the caller declared, also when entries share a mapping.
C3_AsStated ==
    form = "chain" =>
        \A k \in 1..Len(built) :
            LET e  == topology[k]
                kw == built[k].kwargs
            IN  /\ (k < Len(topology) /\ "return_sequences" \in ArgsOf(e.layer)) =>
                      ("return_sequences" \in DOMAIN kw /\ kw["return_sequences"] = TRUE)
                /\ k = Len(topology) =>
                      SameAt(kw, heap0[e.params], "return_sequences")

\* C4: a compiled chain ends in one Dense layer with units = input_shape[1];
\* with a non-empty topology the list is the topology's layers in order, then
\* exactly one dropout Lambda with the configured rate, then that Dense layer;
\* without a topology it is the Dense layer alone, carrying the input shape.
C4_Tail ==
    (form = "chain" /\ cpc = "done") =>
        LET n     == Len(topology)
            dense == layers[Len(layers)]
        IN  /\ Len(layers) >= 1
            /\ dense.cls = "Dense"
            /\ dense.kwargs["units"] = input_shape[2]
            /\ IF ~topoNone /\ n > 0
               THEN /\ Len(layers) = n + 2
                    /\ \A k \in 1..n : layers[k].cls = topology[k].layer
                    /\ layers[n + 1] = [cls |-> "Lambda", kwargs |-> [level |-> dropout_rate]]
                    /\ dense.kwargs = [units |-> input_shape[2]]
                    /\ Cardinality({k \in 1..Len(layers) : layers[k].cls = "Lambda"}) = 1
               ELSE /\ Len(layers) = 1
                    /\ dense.kwargs = [units |-> input_shape[2], input_shape |-> input_shape]

\* A compiled chain of two topology layers, the second a Dense layer of its own.
C4_Witness ==
    /\ form = "chain" /\ cpc = "done"
    /\ Len(topology) = 2 /\ topology[2].layer = "Dense"
    /\ Len(layers) = 4

(***************************************************************************)
(* Properties of both compilers.                                           *)
(***************************************************************************)
HasUnknown == \E k \in 1..Len(topology) : topology[k].layer \notin LayerNames

\* C7 as stated, the class of the error left open: when the topology holds
\* an unknown layer type, compilation ends by raising, and no layer of the
\* topology has been constructed by then.
C7_AsStated ==
    (form \in {"chain", "graph"} /\ HasUnknown /\ Ended) =>
        /\ cpc = "raised"
        /\ built = <<>>

\* C9 as stated: compilation leaves every caller-supplied parameter mapping
\* with exactly the keys and values it held before.
C9_AsStated == form \in {"chain", "graph"} => heap = heap0

(***************************************************************************)
(* Properties of the graph-form compiler.                                  *)
(***************************************************************************)
UniqueIds ==
    \A j, k \in 1..Len(topology) : topology[j].id = topology[k].id => j = k

Declared(k) ==
    \/ topology[k].parent = "input"
    \/ \E j \in 1..(k - 1) : topology[j].id = topology[k].parent

ParentBeforeChild == \A k \in 1..Len(topology) : Declared(k)

\* h is the raw output of the layer of the node called parent (or the input).
IsRawOf(h, parent) ==
    IF parent = "input"
    THEN h.op = "Input"
    ELSE h.op = "Layer" /\ topology[h.entry].id = parent

RECURSIVE HasDropout(_)
HasDropout(h) ==
    CASE h.op = "Input" -> FALSE
      [] h.op = "Layer" -> HasDropout(h.in)
      [] OTHER -> TRUE

OutputsSoFar == Cardinality({k \in 1..pos : topology[k].id = "output"})

\* C2 as stated, for topologies with distinct ids declared parent before
\* child, at the moment a node has been recorded: under 'last' the output
\* node's layer is applied to a dropout of its parent's output, every other
\* node's layer is applied to its parent's raw output, and dropout has been
\* inserted once per output node; under 'all' the node's recorded output is a
\* dropout of its own layer's output; under None there is no dropout.
C2_AsStated ==
    (/\ form = "graph" /\ cpc \in {"loop", "done"} /\ pos >= 1
     /\ UniqueIds /\ ParentBeforeChild) =>
        LET e == topology[pos]
            h == layers[e.id]
        IN  CASE uncertainty = "last" ->
                   /\ h.op = "Layer" /\ h.entry = pos
                   /\ IF e.id = "output"
                      THEN h.in.op = "Lambda" /\ IsRawOf(h.in.in, e.parent)
                      ELSE IsRawOf(h.in, e.parent)
                   /\ nDropout = OutputsSoFar
              [] uncertainty = "all" ->
                   /\ h.op = "Dropout"
                   /\ h.in.op = "Layer" /\ h.in.entry = pos
                   /\ nDropout = pos
              [] OTHER ->
                   /\ h.op = "Layer" /\ h.entry = pos
                   /\ ~HasDropout(h)
                   /\ nDropout = 0

AllKnown == \A k \in 1..Len(topology) : topology[k].layer \in LayerNames

Malformed ==
    \/ \A k \in 1..Len(topology) : topology[k].id # "output"
    \/ ~ParentBeforeChild

\* C8 as stated, for topologies of known layer types whose constructors
\* accept their params: a topology without an output node, or with a parent
\* that is neither the input nor declared earlier, ends compilation with
\* ConfigurationError.
C8_AsStated ==
    (form = "graph" /\ ~topoNone /\ AllKnown /\ Malformed /\ Ended
     /\ cResult # "TypeError") =>
        /\ cpc = "raised"
        /\ cResult = "ConfigurationError"

====
